---- MODULE Spec2Model ----
(***************************************************************************)
(* Broadcast.cpp: a UDP broadcast probe.  One process parses its command   *)
(* line, provisions a datagram socket (WSAStartup, socket, SO_BROADCAST,   *)
(* IP_MULTICAST_TTL, bind) and then runs either the broadcaster loop       *)
(* (sendto / Sleep) or the receiver loop (recvfrom / printf) for ever.     *)
(*                                                                         *)
(* Text is a sequence of one-character strings ("-p41" is                  *)
(* <<"-","p","4","1">>), an IPv4 address is its four octets, most          *)
(* significant first, and an int is a 32-bit two's complement integer.     *)
(* argv holds argv[1..argc-1] of the C program (argv[0] is never read), so *)
(* the C expression argv[i][k] is argv[i][k+1] here.  Every argument is a  *)
(* non-empty string: the switch at line 175 reads argv[i][1], which lies   *)
(* inside the string only then.  strcpy_s on a text that does not fit its  *)
(* buffer calls the runtime's invalid-parameter handler; the program       *)
(* installs none, so the default one ends the process without exit():     *)
(* pc becomes "aborted" and exitCode stays empty.                          *)
(* inet_addr is modelled on decimal dotted text (no octal or hexadecimal   *)
(* parts).                                                                 *)
(***************************************************************************)
EXTENDS Integers, Sequences, FiniteSets, TLC

VARIABLES argv,      \* [process -> argument list]
          pc,        \* [process -> the call the process is about to make]
          nPort,     \* [process -> int]  main's nPort
          nTtl,      \* [process -> int]  main's nTtl
          bRecv,     \* [process -> int]  main's bRecv
          sOvrAddr,  \* [process -> text] main's sOvrAddr
          sock,      \* [process -> socket state: broadcast flag, TTL, bound port]
          dst,       \* [process -> destination of broadcast()]
          nValue,    \* [process -> int]  the loop's nValue
          inbox,     \* [process -> datagrams queued on the bound socket]
          calls,     \* [process -> the library calls made so far, in order]
          exitCode   \* [process -> <<>> while running, <<status>> after exit]

vars == <<argv, pc, nPort, nTtl, bRecv, sOvrAddr, sock, dst, nValue, inbox,
          calls, exitCode>>

(***************************************************************************)
(* Bounds of the model.                                                    *)
(***************************************************************************)
MaxArgs  == 2    \* arguments on a command line
MaxSends == 9    \* sendto calls of one broadcaster
MaxRecv  == 2    \* datagrams the environment delivers to one socket
MaxInbox == 1    \* environment datagrams queued and not yet received

(***************************************************************************)
(* Program constants.                                                      *)
(***************************************************************************)
DEFAULT_PORT == 40061
DEFAULT_TTL  == 1
SLEEP_MS     == 5000
LONG_MAX     == 2147483647
LONG_MIN     == -2147483647 - 1
USHORT_RANGE == 65536
SOCKET_ERROR == -1
INT_SIZE     == 4      \* sizeof(nValue)
BYTE_RANGE   == 256
ADDR_SIZE    == 256    \* sizeof(sOvrAddr)

INADDR_BROADCAST == <<255, 255, 255, 255>>
INADDR_NONE      == <<255, 255, 255, 255>>
NoPort           == -1     \* the socket is not bound

Digits == {"0", "1", "2", "3", "4", "5", "6", "7", "8", "9"}
Space  == {" "}
DigitVal(c) == CASE c = "0" -> 0 [] c = "1" -> 1 [] c = "2" -> 2 [] c = "3" -> 3
                 [] c = "4" -> 4 [] c = "5" -> 5 [] c = "6" -> 6 [] c = "7" -> 7
                 [] c = "8" -> 8 [] c = "9" -> 9

(***************************************************************************)
(* strtol(s, NULL, 10) with a 32-bit long: leading white space, an         *)
(* optional sign, then the longest run of digits; no digits gives 0, a     *)
(* value out of range gives LONG_MAX or LONG_MIN.                          *)
(***************************************************************************)
RECURSIVE SkipSpace(_, _)
SkipSpace(s, i) ==
    IF i <= Len(s) /\ s[i] \in Space THEN SkipSpace(s, i + 1) ELSE i

\* The digits from position i on, accumulated; over is set once the value
\* has passed LONG_MAX (the accumulator then stays at LONG_MAX).
RECURSIVE Accumulate(_, _, _)
Accumulate(s, i, acc) ==
    IF i <= Len(s) /\ s[i] \in Digits
    THEN LET d == DigitVal(s[i])
         IN IF acc.over \/ acc.v > (LONG_MAX - d) \div 10
            THEN Accumulate(s, i + 1, [v |-> LONG_MAX, over |-> TRUE])
            ELSE Accumulate(s, i + 1, [v |-> acc.v * 10 + d, over |-> FALSE])
    ELSE acc

\* A conversion that gives 0 for a value out of the range of long.
strtolZeroOnRange(s) ==
    LET i   == SkipSpace(s, 1)
        neg == i <= Len(s) /\ s[i] = "-"
        j   == IF i <= Len(s) /\ s[i] \in {"+", "-"} THEN i + 1 ELSE i
        mag == Accumulate(s, j, [v |-> 0, over |-> FALSE])
    IN  IF mag.over THEN 0 ELSE IF neg THEN 0 - mag.v ELSE mag.v

strtol(s) ==
    LET i   == SkipSpace(s, 1)
        neg == i <= Len(s) /\ s[i] = "-"
        j   == IF i <= Len(s) /\ s[i] \in {"+", "-"} THEN i + 1 ELSE i
        mag == Accumulate(s, j, [v |-> 0, over |-> FALSE])
    IN  IF neg THEN (IF mag.over THEN LONG_MIN ELSE 0 - mag.v)
               ELSE mag.v

\* A conversion that hands the int on as it is.
htonsKeepsInt(n) == n

\* htons(n) of an int: the conversion to u_short keeps the low 16 bits.
htons(n) == n % USHORT_RANGE

(***************************************************************************)
(* inet_addr(s): one to four decimal parts separated by dots; every part   *)
(* but the last is one octet, the last part fills the remaining octets.    *)
(* Anything else gives INADDR_NONE.                                        *)
(***************************************************************************)
\* A 4-octet number times ten plus d; <<>> when it no longer fits.
MulAdd(o, d) ==
    IF o = <<>> THEN <<>>
    ELSE LET x4 == o[4] * 10 + d
             x3 == o[3] * 10 + (x4 \div BYTE_RANGE)
             x2 == o[2] * 10 + (x3 \div BYTE_RANGE)
             x1 == o[1] * 10 + (x2 \div BYTE_RANGE)
         IN  IF x1 >= BYTE_RANGE THEN <<>>
             ELSE <<x1, x2 % BYTE_RANGE, x3 % BYTE_RANGE, x4 % BYTE_RANGE>>

\* The decimal number s[i..j] as four octets; <<>> when it is empty, holds a
\* character that is no digit, or is 2^32 or more.
RECURSIVE PartValue(_, _, _, _)
PartValue(s, i, j, o) ==
    IF i > j \/ o = <<>> THEN o
    ELSE IF s[i] \notin Digits THEN <<>>
    ELSE PartValue(s, i + 1, j, MulAdd(o, DigitVal(s[i])))

Dots(s) == {i \in 1..Len(s) : s[i] = "."}

\* The k-th part of s (1-based) as four octets.
Part(s, k) ==
    LET dots  == Dots(s)
        before(i) == Cardinality({d \in dots : d < i})
        from  == IF k = 1 THEN 1
                 ELSE 1 + CHOOSE d \in dots : before(d) = k - 2
        to    == IF k = Cardinality(dots) + 1 THEN Len(s)
                 ELSE (CHOOSE d \in dots : before(d) = k - 1) - 1
    IN  IF from > to THEN <<>> ELSE PartValue(s, from, to, <<0, 0, 0, 0>>)

\* A conversion whose failure value is the all-zeros address.
inet_addrZeroOnFailure(s) ==
    LET n == Cardinality(Dots(s)) + 1
        p(k) == Part(s, k)
        octet(k) == p(k) # <<>> /\ p(k)[1] = 0 /\ p(k)[2] = 0 /\ p(k)[3] = 0
    IN  IF n > 4 \/ \E k \in 1..n : p(k) = <<>> THEN <<0, 0, 0, 0>>
        ELSE IF \E k \in 1..(n - 1) : ~octet(k) THEN <<0, 0, 0, 0>>
        ELSE IF \E m \in 1..(n - 1) : p(n)[m] # 0 THEN <<0, 0, 0, 0>>
        ELSE [m \in 1..4 |-> IF m < n THEN p(m)[4] ELSE p(n)[m]]

inet_addr(s) ==
    LET n == Cardinality(Dots(s)) + 1
        p(k) == Part(s, k)
        octet(k) == p(k) # <<>> /\ p(k)[1] = 0 /\ p(k)[2] = 0 /\ p(k)[3] = 0
    IN  IF n > 4 \/ \E k \in 1..n : p(k) = <<>> THEN INADDR_NONE
        ELSE IF \E k \in 1..(n - 1) : ~octet(k) THEN INADDR_NONE
        ELSE IF \E m \in 1..(n - 1) : p(n)[m] # 0 THEN INADDR_NONE
        ELSE [m \in 1..4 |-> IF m < n THEN p(m)[4] ELSE p(n)[m]]

\* The decimal text of a number 0..255.
DigitChar(d) == CASE d = 0 -> "0" [] d = 1 -> "1" [] d = 2 -> "2" [] d = 3 -> "3"
                  [] d = 4 -> "4" [] d = 5 -> "5" [] d = 6 -> "6" [] d = 7 -> "7"
                  [] d = 8 -> "8" [] d = 9 -> "9"
OctetText(n) ==
    IF n >= 100 THEN <<DigitChar(n \div 100), DigitChar((n \div 10) % 10), DigitChar(n % 10)>>
    ELSE IF n >= 10 THEN <<DigitChar(n \div 10), DigitChar(n % 10)>>
    ELSE <<DigitChar(n)>>

\* inet_ntoa: the dotted decimal text of an address.
inet_ntoa(a) ==
    OctetText(a[1]) \o <<".">> \o OctetText(a[2]) \o <<".">> \o
    OctetText(a[3]) \o <<".">> \o OctetText(a[4])

(***************************************************************************)
(* parseCommandLine.  A configuration is the four values main passes by    *)
(* reference, and out, the lines parsing has printed.                      *)
(***************************************************************************)
NUL == "\\0"

\* &argv[i][2]: the text after the two leading characters.
Rest(arg) == SubSeq(arg, 3, Len(arg))

\* argv[i][1]: the terminating NUL when the argument is one character long.
FlagChar(arg) == IF Len(arg) >= 2 THEN arg[2] ELSE NUL

\* An override that is appended to the buffer instead of copied over it.
CaseAAppend(cfg, arg) == [cfg EXCEPT !.sAddr = @ \o Rest(arg)]

\* case 'a': strcpy_s(sAddr, nAddrSize, &argv[i][2]).  A text that does not
\* fit with its NUL empties the buffer and ends the process.
CaseA(cfg, arg) ==
    IF Len(Rest(arg)) < ADDR_SIZE
    THEN [cfg EXCEPT !.sAddr = Rest(arg)]
    ELSE [cfg EXCEPT !.sAddr = <<>>, !.aborted = TRUE]

\* A port flag that is honoured only while the port still has its default.
CasePFirstWins(cfg, arg) ==
    IF cfg.nPort = DEFAULT_PORT THEN [cfg EXCEPT !.nPort = strtol(Rest(arg))] ELSE cfg

\* case 'p': *pnPort = strtol(&argv[i][2], NULL, 10)
CaseP(cfg, arg) == [cfg EXCEPT !.nPort = strtol(Rest(arg))]

\* case 'r': *pbRecv = 1
CaseR(cfg, arg) == [cfg EXCEPT !.bRecv = 1]

\* case 't': *pnTtl = strtol(&argv[i][2], NULL, 10)
CaseT(cfg, arg) == [cfg EXCEPT !.nTtl = strtol(Rest(arg))]

\* A help request that ends the run once the usage text is printed.
CaseHelpEndsRun(cfg, arg) ==
    [cfg EXCEPT !.out = Append(@, [op |-> "printf", fmt |-> "usage"]), !.aborted = TRUE]

\* case '?': displayUsage(), then break out of the switch
CaseHelp(cfg, arg) ==
    [cfg EXCEPT !.out = Append(@, [op |-> "printf", fmt |-> "usage"])]

\* An unrecognized flag that also puts the port back to its default.
CaseDefaultResets(cfg, arg) ==
    [cfg EXCEPT !.nPort = DEFAULT_PORT,
                !.out = Append(@, [op |-> "printf", fmt |-> "Unknown command line argument",
                                   chr |-> FlagChar(arg)])]

\* default: printf("Unknown command line argument '%c'\n", argv[i][1])
CaseDefault(cfg, arg) ==
    [cfg EXCEPT !.out = Append(@, [op |-> "printf", fmt |-> "Unknown command line argument",
                                   chr |-> FlagChar(arg)])]

\* One pass of the for loop's body: the switch on argv[i][1].
ParseArg(cfg, arg) ==
    LET c == FlagChar(arg)
    IN  CASE c = "a" -> CaseA(cfg, arg)
          [] c = "p" -> CaseP(cfg, arg)
          [] c = "r" -> CaseR(cfg, arg)
          [] c = "t" -> CaseT(cfg, arg)
          [] c = "?" -> CaseHelp(cfg, arg)
          [] OTHER   -> CaseDefault(cfg, arg)

RECURSIVE ParseFrom(_, _, _)
ParseFrom(args, i, cfg) ==
    IF i > Len(args) \/ cfg.aborted THEN cfg
    ELSE ParseFrom(args, i + 1, ParseArg(cfg, args[i]))

\* *pbRecv = 0, then the loop over argv[1..argc-1].
parseCommandLine(args, cfg) == ParseFrom(args, 1, [cfg EXCEPT !.bRecv = 0])

\* main's locals before the call; bRecv is not initialised, and
\* parseCommandLine writes it before anything reads it.
MainLocals(b) ==
    [nPort |-> DEFAULT_PORT, nTtl |-> DEFAULT_TTL, bRecv |-> b, sAddr |-> <<>>,
     out |-> <<>>, aborted |-> FALSE]

(***************************************************************************)
(* The int nValue as the four bytes sendto and recvfrom see (little        *)
(* endian, two's complement), and back.                                    *)
(***************************************************************************)
IntBytes(v) ==
    LET low == IF v >= 0 THEN v ELSE v - LONG_MIN      \* the low 31 bits
        top == IF v >= 0 THEN 0 ELSE BYTE_RANGE \div 2  \* the sign bit
    IN  <<low % BYTE_RANGE,
          (low \div BYTE_RANGE) % BYTE_RANGE,
          (low \div (BYTE_RANGE * BYTE_RANGE)) % BYTE_RANGE,
          (low \div (BYTE_RANGE * BYTE_RANGE * BYTE_RANGE)) + top>>

BytesInt(b) ==
    LET half == BYTE_RANGE \div 2
        low  == b[1] + BYTE_RANGE * b[2] + BYTE_RANGE * BYTE_RANGE * b[3]
                + BYTE_RANGE * BYTE_RANGE * BYTE_RANGE * (b[4] % half)
    IN  IF b[4] >= half THEN low + LONG_MIN ELSE low

\* A receive into a buffer that is cleared before every call.
StoreBytesCleared(v, data) ==
    BytesInt([k \in 1..INT_SIZE |-> IF k <= Len(data) THEN data[k] ELSE 0])

\* A receive that stores one byte fewer than the buffer holds.
StoreBytesShort(v, data) ==
    LET old == IntBytes(v)
    IN  BytesInt([k \in 1..INT_SIZE |->
                    IF k <= Len(data) /\ k < INT_SIZE THEN data[k] ELSE old[k]])

\* recvfrom(s, (char*)&nValue, sizeof(nValue), ...): the first
\* min(length, sizeof(nValue)) bytes of the datagram replace the first bytes
\* of nValue; the other bytes of nValue keep what they held.
StoreBytes(v, data) ==
    LET old == IntBytes(v)
    IN  BytesInt([k \in 1..INT_SIZE |-> IF k <= Len(data) THEN data[k] ELSE old[k]])

(***************************************************************************)
(* The hosts and the network around them.                                  *)
(***************************************************************************)
HostAddr(p) == CASE p = "host" -> <<10, 0, 0, 1>>
                 [] p = "rx"   -> <<10, 0, 0, 2>>
                 [] p = "tx"   -> <<10, 0, 0, 3>>

\* The directed broadcast address of the hosts' subnet.
SUBNET_BROADCAST == <<10, 0, 0, 255>>

\* Other hosts that may send to a socket of the model, and what they send.
Payloads  == {<<255, 255, 255, 255>>, <<>>, <<1>>, <<2, 0, 0, 0, 9>>}
Datagrams == [src : {<<10, 0, 0, 7>>}, data : Payloads]
             \cup {[src |-> <<10, 0, 0, 8>>, data |-> <<1, 0, 0, 0>>]}

\* The ports the system gives to a bind to port 0.
EphemeralPorts == {49152, 49153}

\* A datagram sent to addr:port is queued on the socket of process q.
Reaches(q, addr, port) ==
    /\ sock[q].port = port
    /\ addr \in {INADDR_BROADCAST, SUBNET_BROADCAST, HostAddr(q)}

\* The processes that must be waiting for data before p is launched.
LaunchedAfter(p) == IF p = "tx" THEN {"rx"} ELSE {}

(***************************************************************************)
(* Command lines.                                                          *)
(***************************************************************************)
ArgPool ==
    { <<"-", "r">>,
      <<"-", "p", "4", "1", "0", "0", "0">>,
      <<"-", "p", "7", "0", "0", "0", "0">>,
      <<"-", "p", "a", "b", "c">>,
      <<"-", "t", "6", "4">>,
      <<"-", "t", "9", "9", "9", "9", "9", "9", "9", "9", "9", "9", "9">>,
      <<"-", "a", "1", "0", ".", "0", ".", "0", ".", "2", "5", "5">>,
      <<"-", "a", "a", "b", "c">>,
      <<"-", "a">>,
      <<"-", "a">> \o [i \in 1..ADDR_SIZE |-> "9"],
      <<"-", "x">>,
      <<"-", "?">> }

ArgLists == UNION {[1..n -> ArgPool] : n \in 0..MaxArgs}

(***************************************************************************)
(* The process.                                                            *)
(***************************************************************************)
Log(p, evs) == calls' = [calls EXCEPT ![p] = @ \o evs]

\* exit(status), after the calls evs.
Exit(p, evs, status) ==
    /\ Log(p, evs)
    /\ pc' = [pc EXCEPT ![p] = "exited"]
    /\ exitCode' = [exitCode EXCEPT ![p] = <<status>>]

InitProcs(P, args) ==
    /\ argv = args
    /\ pc = [p \in P |-> "main"]
    /\ nPort = [p \in P |-> DEFAULT_PORT]
    /\ nTtl = [p \in P |-> DEFAULT_TTL]
    /\ bRecv = [p \in P |-> 0]
    /\ sOvrAddr = [p \in P |-> <<>>]
    /\ sock = [p \in P |-> [bcast |-> FALSE, ttl |-> DEFAULT_TTL, port |-> NoPort]]
    /\ dst = [p \in P |-> [addr |-> <<0, 0, 0, 0>>, port |-> 0]]
    /\ nValue = [p \in P |-> 0]
    /\ inbox = [p \in P |-> <<>>]
    /\ calls = [p \in P |-> <<>>]
    /\ exitCode = [p \in P |-> <<>>]

Init == \E a \in ArgLists : InitProcs({"host"}, [p \in {"host"} |-> a])

\* main, lines 48-53: the defaults and parseCommandLine.
Main(p) ==
    /\ pc[p] = "main"
    /\ \A q \in LaunchedAfter(p) \cap DOMAIN pc : pc[q] = "recvfrom"
    /\ \E b \in {0, 1} :
         LET cfg == parseCommandLine(argv[p], MainLocals(b))
         IN  /\ nPort' = [nPort EXCEPT ![p] = cfg.nPort]
             /\ nTtl' = [nTtl EXCEPT ![p] = cfg.nTtl]
             /\ bRecv' = [bRecv EXCEPT ![p] = cfg.bRecv]
             /\ sOvrAddr' = [sOvrAddr EXCEPT ![p] = cfg.sAddr]
             /\ Log(p, cfg.out)
             /\ pc' = [pc EXCEPT ![p] = IF cfg.aborted THEN "aborted" ELSE "WSAStartup"]
    /\ UNCHANGED <<argv, sock, dst, nValue, inbox, exitCode>>

\* initWinSock, lines 55-56 and 211-229.
InitWinSock(p, ok) ==
    /\ pc[p] = "WSAStartup"
    /\ IF ok
       THEN /\ Log(p, <<[op |-> "WSAStartup", ok |-> TRUE]>>)
            /\ pc' = [pc EXCEPT ![p] = "socket"]
            /\ UNCHANGED exitCode
       ELSE Exit(p, <<[op |-> "WSAStartup", ok |-> FALSE],
                      [op |-> "printf", fmt |-> "WSAStartup failed with error"]>>, 1)
    /\ UNCHANGED <<argv, nPort, nTtl, bRecv, sOvrAddr, sock, dst, nValue, inbox>>

\* socket() with its result never tested.
SocketUnchecked(p, ok) ==
    /\ pc[p] = "socket"
    /\ Log(p, <<[op |-> "socket", ok |-> ok]>>)
    /\ pc' = [pc EXCEPT ![p] = "SO_BROADCAST"]
    /\ UNCHANGED <<argv, nPort, nTtl, bRecv, sOvrAddr, sock, dst, nValue, inbox,
                   exitCode>>

\* socket(AF_INET, SOCK_DGRAM, 0), lines 58-63.
Socket(p, ok) ==
    /\ pc[p] = "socket"
    /\ IF ok
       THEN /\ Log(p, <<[op |-> "socket", ok |-> TRUE]>>)
            /\ pc' = [pc EXCEPT ![p] = "SO_BROADCAST"]
            /\ UNCHANGED exitCode
       ELSE Exit(p, <<[op |-> "socket", ok |-> FALSE],
                      [op |-> "perror", fmt |-> "Setting up socket"]>>, 1)
    /\ UNCHANGED <<argv, nPort, nTtl, bRecv, sOvrAddr, sock, dst, nValue, inbox>>

\* setsockopt(s, SOL_SOCKET, SO_BROADCAST, &on), lines 65-69.
SetBroadcast(p, ok) ==
    /\ pc[p] = "SO_BROADCAST"
    /\ IF ok
       THEN /\ Log(p, <<[op |-> "SO_BROADCAST", ok |-> TRUE]>>)
            /\ sock' = [sock EXCEPT ![p].bcast = TRUE]
            /\ pc' = [pc EXCEPT ![p] = "IP_MULTICAST_TTL"]
            /\ UNCHANGED exitCode
       ELSE /\ Exit(p, <<[op |-> "SO_BROADCAST", ok |-> FALSE],
                         [op |-> "perror", fmt |-> "Setting broadcast"]>>, 1)
            /\ UNCHANGED sock
    /\ UNCHANGED <<argv, nPort, nTtl, bRecv, sOvrAddr, dst, nValue, inbox>>

\* setsockopt(s, IPPROTO_IP, IP_MULTICAST_TTL, &nTtl), lines 71-75.
SetTtl(p, ok) ==
    /\ pc[p] = "IP_MULTICAST_TTL"
    /\ IF ok
       THEN /\ Log(p, <<[op |-> "IP_MULTICAST_TTL", ttl |-> nTtl[p], ok |-> TRUE]>>)
            /\ sock' = [sock EXCEPT ![p].ttl = nTtl[p]]
            /\ pc' = [pc EXCEPT ![p] = "bind"]
            /\ UNCHANGED exitCode
       ELSE /\ Exit(p, <<[op |-> "IP_MULTICAST_TTL", ttl |-> nTtl[p], ok |-> FALSE],
                         [op |-> "perror", fmt |-> "Setting TTL"]>>, 1)
            /\ UNCHANGED sock
    /\ UNCHANGED <<argv, nPort, nTtl, bRecv, sOvrAddr, dst, nValue, inbox>>

\* A destination that ignores the override.
DestinationNoOverride(sAddr, port) ==
    [addr |-> INADDR_BROADCAST, port |-> htons(port)]

\* broadcast, lines 102-107: the destination, resolved once before the loop.
Destination(sAddr, port) ==
    [addr |-> IF Len(sAddr) > 0 THEN inet_addr(sAddr) ELSE INADDR_BROADCAST,
     port |-> htons(port)]

\* The dispatch with its branches swapped.
RunsReceiverSwapped(b) == b = 0

\* main, line 89: if (bRecv) receive(s); else broadcast(s, nPort, sOvrAddr).
RunsReceiver(b) == b # 0

\* A counter that starts at one.
FirstValueOne == 0 + 1

\* int nValue = 0, lines 100 and 126.
FirstValue == 0

\* bind(s, INADDR_ANY : htons(nPort)), lines 80-87, and on success the
\* dispatch of lines 89-92 up to the first call of the loop entered.
Bind(p, ok) ==
    /\ pc[p] = "bind"
    /\ LET port == htons(nPort[p])
           d    == Destination(sOvrAddr[p], nPort[p])
       IN  IF ok
           THEN /\ \E got \in (IF port = 0 THEN EphemeralPorts ELSE {port}) :
                      sock' = [sock EXCEPT ![p].port = got]
                /\ nValue' = [nValue EXCEPT ![p] = FirstValue]
                /\ IF RunsReceiver(bRecv[p])
                   THEN /\ Log(p, <<[op |-> "bind", port |-> port, ok |-> TRUE],
                                    [op |-> "printf", fmt |-> "Waiting for data"]>>)
                        /\ pc' = [pc EXCEPT ![p] = "recvfrom"]
                        /\ UNCHANGED dst
                   ELSE /\ Log(p, <<[op |-> "bind", port |-> port, ok |-> TRUE],
                                    [op |-> "printf", fmt |-> "Broadcast to",
                                     addr |-> inet_ntoa(d.addr), port |-> d.port]>>)
                        /\ dst' = [dst EXCEPT ![p] = d]
                        /\ pc' = [pc EXCEPT ![p] = "sendto"]
                /\ UNCHANGED exitCode
           ELSE /\ Exit(p, <<[op |-> "bind", port |-> port, ok |-> FALSE],
                             [op |-> "perror", fmt |-> "Binding socket"]>>, 1)
                /\ UNCHANGED <<sock, dst, nValue>>
    /\ UNCHANGED <<argv, nPort, nTtl, bRecv, sOvrAddr, inbox>>

\* A counter that steps by two.
IncrementTwice(v) == v + 2

\* nValue++, line 119, on an int.  At INT_MAX the increment is a signed
\* overflow, which the language leaves undefined; the program builds with
\* Visual C++ only (Winsock, strcpy_s, Sleep), whose code for it is an add
\* that wraps to INT_MIN.
Increment(v) == IF v < LONG_MAX THEN v + 1 ELSE LONG_MIN

\* The datagram handed to the network by a successful sendto: every bound
\* socket it reaches queues one copy.
Deliver(p, addr, port, data) ==
    inbox' = [q \in DOMAIN inbox |->
                IF Reaches(q, addr, port)
                THEN Append(inbox[q], [src |-> HostAddr(p), data |-> data])
                ELSE inbox[q]]

\* A failed send that is reported and then tried again.
SendRetried(p, evs) ==
    /\ Log(p, evs \o <<[op |-> "perror", fmt |-> "Sending broadcast"]>>)
    /\ UNCHANGED <<pc, exitCode>>

\* The if-body of lines 114-117: perror and exit(1).
SendFailed(p, evs) ==
    Exit(p, evs \o <<[op |-> "perror", fmt |-> "Sending broadcast"]>>, 1)

\* The sendto calls process p has made so far.
SendsMade(p) == Cardinality({i \in 1..Len(calls[p]) : calls[p][i].op = "sendto"})

\* One pass of the broadcaster's loop up to the Sleep, lines 112-119.
SendTo(p, ok) ==
    /\ pc[p] = "sendto"
    /\ SendsMade(p) < MaxSends
    /\ LET evs == <<[op |-> "printf", fmt |-> "Sending", val |-> nValue[p]],
                    [op |-> "sendto", data |-> IntBytes(nValue[p]),
                     addr |-> dst[p].addr, port |-> dst[p].port, ok |-> ok]>>
       IN  IF ok
           THEN /\ Log(p, evs)
                /\ Deliver(p, dst[p].addr, dst[p].port, IntBytes(nValue[p]))
                /\ nValue' = [nValue EXCEPT ![p] = Increment(@)]
                /\ pc' = [pc EXCEPT ![p] = "Sleep"]
                /\ UNCHANGED exitCode
           ELSE /\ SendFailed(p, evs)
                /\ UNCHANGED <<nValue, inbox>>
    /\ UNCHANGED <<argv, nPort, nTtl, bRecv, sOvrAddr, sock, dst>>

\* A Sleep that never returns.
SleepForEver(p) ==
    /\ pc[p] = "Sleep"
    /\ Log(p, <<[op |-> "Sleep", ms |-> SLEEP_MS]>>)
    /\ pc' = [pc EXCEPT ![p] = "asleep"]
    /\ UNCHANGED <<argv, nPort, nTtl, bRecv, sOvrAddr, sock, dst, nValue, inbox,
                   exitCode>>

\* Sleep(5000) and the jump back to the head of for (;;), lines 120-121.
Sleep(p) ==
    /\ pc[p] = "Sleep"
    /\ Log(p, <<[op |-> "Sleep", ms |-> SLEEP_MS]>>)
    /\ pc' = [pc EXCEPT ![p] = "sendto"]
    /\ UNCHANGED <<argv, nPort, nTtl, bRecv, sOvrAddr, sock, dst, nValue, inbox,
                   exitCode>>

\* A recvfrom that cuts a long datagram to the buffer and reports success.
RecvResultTruncates(data) == IF Len(data) > INT_SIZE THEN INT_SIZE ELSE Len(data)

\* What recvfrom returns for a datagram: its length, or SOCKET_ERROR
\* (WSAEMSGSIZE) when it is longer than the buffer.
RecvResult(data) == IF Len(data) > INT_SIZE THEN SOCKET_ERROR ELSE Len(data)

\* The else-body of lines 143-145: the report of one datagram.
Report(v, src) ==
    <<[op |-> "printf", fmt |-> "Received", val |-> v, from |-> inet_ntoa(src)]>>

\* A failed receive that leaves the loop, so that main runs on to exit(0).
RecvFailedReturns(p, evs, result) ==
    Exit(p, evs \o (IF result = SOCKET_ERROR
                    THEN <<[op |-> "printf", fmt |-> "recvfrom failed with error"]>>
                    ELSE <<>>), 0)

\* The if-body of lines 137-141.
RecvFailed(p, evs, result) ==
    Exit(p, evs \o (IF result = SOCKET_ERROR
                    THEN <<[op |-> "printf", fmt |-> "recvfrom failed with error"]>>
                    ELSE <<>>), 1)

\* One pass of the receiver's loop, lines 134-145.  With fault the call
\* fails with no datagram taken; otherwise it blocks until one is queued.
RecvFrom(p, fault) ==
    /\ pc[p] = "recvfrom"
    /\ IF fault
       THEN /\ RecvFailed(p, <<[op |-> "recvfrom", result |-> SOCKET_ERROR,
                                data |-> <<>>, src |-> <<>>]>>, SOCKET_ERROR)
            /\ UNCHANGED <<nValue, inbox>>
       ELSE /\ inbox[p] # <<>>
            /\ LET d      == Head(inbox[p])
                   result == RecvResult(d.data)
                   v      == StoreBytes(nValue[p], d.data)
                   ev     == <<[op |-> "recvfrom", result |-> result,
                                data |-> d.data, src |-> d.src]>>
               IN  /\ inbox' = [inbox EXCEPT ![p] = Tail(@)]
                   /\ nValue' = [nValue EXCEPT ![p] = v]
                   /\ IF result < 0
                      THEN RecvFailed(p, ev, result)
                      ELSE /\ Log(p, ev \o Report(v, d.src))
                           /\ UNCHANGED <<pc, exitCode>>
    /\ UNCHANGED <<argv, nPort, nTtl, bRecv, sOvrAddr, sock, dst>>

\* The datagrams process p has taken from its socket so far.
Taken(p) == Cardinality({i \in 1..Len(calls[p]) : calls[p][i].op = "recvfrom"})

\* Another host's datagram arrives at the bound socket of process p.  Only
\* the receiver loop ever reads a socket, so arrivals are modelled for the
\* processes in it (it is entered by the step that binds the socket).
Arrive(p, d) ==
    /\ pc[p] = "recvfrom"
    /\ sock[p].port # NoPort
    /\ Len(inbox[p]) < MaxInbox
    /\ Taken(p) + Len(inbox[p]) < MaxRecv
    /\ inbox' = [inbox EXCEPT ![p] = Append(@, d)]
    /\ UNCHANGED <<argv, pc, nPort, nTtl, bRecv, sOvrAddr, sock, dst, nValue,
                   calls, exitCode>>

Procs == DOMAIN pc

Next ==
    \/ \E p \in Procs : Main(p)
    \/ \E p \in Procs, ok \in BOOLEAN : InitWinSock(p, ok)
    \/ \E p \in Procs, ok \in BOOLEAN : Socket(p, ok)
    \/ \E p \in Procs, ok \in BOOLEAN : SetBroadcast(p, ok)
    \/ \E p \in Procs, ok \in BOOLEAN : SetTtl(p, ok)
    \/ \E p \in Procs, ok \in BOOLEAN : Bind(p, ok)
    \/ \E p \in Procs, ok \in BOOLEAN : SendTo(p, ok)
    \/ \E p \in Procs : Sleep(p)
    \/ \E p \in Procs, fault \in BOOLEAN : RecvFrom(p, fault)
    \/ \E p \in Procs, d \in Datagrams : Arrive(p, d)

Spec == Init /\ [][Next]_vars

(***************************************************************************)
(* The end-to-end scenario: a receiver launched with -r -p41000 on one     *)
(* host and, once it waits for data, a broadcaster launched with           *)
(* -p41000 -t1 on another.  No other host sends and no socket call fails.  *)
(* Each process is scheduled, and each of its blocking calls returns.      *)
(***************************************************************************)
NetArgs(p) ==
    IF p = "rx" THEN << <<"-", "r">>, <<"-", "p", "4", "1", "0", "0", "0">> >>
                ELSE << <<"-", "p", "4", "1", "0", "0", "0">>, <<"-", "t", "1">> >>

InitNet == InitProcs({"rx", "tx"}, [p \in {"rx", "tx"} |-> NetArgs(p)])

StepNet(p) ==
    \/ Main(p)
    \/ InitWinSock(p, TRUE)
    \/ Socket(p, TRUE)
    \/ SetBroadcast(p, TRUE)
    \/ SetTtl(p, TRUE)
    \/ Bind(p, TRUE)
    \/ SendTo(p, TRUE)
    \/ Sleep(p)
    \/ RecvFrom(p, FALSE)

NextNet ==
    \/ \E p \in Procs : Main(p)
    \/ \E p \in Procs : InitWinSock(p, TRUE)
    \/ \E p \in Procs : Socket(p, TRUE)
    \/ \E p \in Procs : SetBroadcast(p, TRUE)
    \/ \E p \in Procs : SetTtl(p, TRUE)
    \/ \E p \in Procs : Bind(p, TRUE)
    \/ \E p \in Procs : SendTo(p, TRUE)
    \/ \E p \in Procs : Sleep(p)
    \/ \E p \in Procs : RecvFrom(p, FALSE)

SpecNet == InitNet /\ [][NextNet]_vars /\ \A p \in {"rx", "tx"} : WF_vars(StepNet(p))

(***************************************************************************)
(* parseCommandLine as a function of the argument list and the values it   *)
(* is given: main's call, then further calls on the values the last call   *)
(* left behind.                                                            *)
(***************************************************************************)
ParseAgain(p) ==
    /\ pc[p] \in {"WSAStartup", "reparsed"}
    /\ LET cfg == parseCommandLine(argv[p],
                     [nPort |-> nPort[p], nTtl |-> nTtl[p], bRecv |-> bRecv[p],
                      sAddr |-> sOvrAddr[p], out |-> <<>>, aborted |-> FALSE])
       IN  /\ nPort' = [nPort EXCEPT ![p] = cfg.nPort]
           /\ nTtl' = [nTtl EXCEPT ![p] = cfg.nTtl]
           /\ bRecv' = [bRecv EXCEPT ![p] = cfg.bRecv]
           /\ sOvrAddr' = [sOvrAddr EXCEPT ![p] = cfg.sAddr]
    /\ pc' = [pc EXCEPT ![p] = "reparsed"]
    /\ UNCHANGED <<argv, sock, dst, nValue, inbox, calls, exitCode>>

NextParse ==
    \/ \E p \in Procs : Main(p)
    \/ \E p \in Procs : ParseAgain(p)

SpecParse == Init /\ [][NextParse]_vars

(***************************************************************************)
(* The broadcaster loop late in a run: the process has parsed its command  *)
(* line, provisioned its socket and sent the values 0 .. INT_MAX - 3; calls *)
(* holds the calls it makes from here on.                                  *)
(***************************************************************************)
NearOverflow == LONG_MAX - 2

InitWrap ==
    \E a \in ArgLists :
        LET cfg == parseCommandLine(a, MainLocals(0))
            d   == Destination(cfg.sAddr, cfg.nPort)
        IN  /\ ~cfg.aborted
            /\ ~RunsReceiver(cfg.bRecv)
            /\ argv = [p \in {"host"} |-> a]
            /\ pc = [p \in {"host"} |-> "sendto"]
            /\ nPort = [p \in {"host"} |-> cfg.nPort]
            /\ nTtl = [p \in {"host"} |-> cfg.nTtl]
            /\ bRecv = [p \in {"host"} |-> cfg.bRecv]
            /\ sOvrAddr = [p \in {"host"} |-> cfg.sAddr]
            /\ \E got \in (IF d.port = 0 THEN EphemeralPorts ELSE {d.port}) :
                   sock = [p \in {"host"} |-> [bcast |-> TRUE, ttl |-> cfg.nTtl, port |-> got]]
            /\ dst = [p \in {"host"} |-> d]
            /\ nValue = [p \in {"host"} |-> NearOverflow]
            /\ inbox = [p \in {"host"} |-> <<>>]
            /\ calls = [p \in {"host"} |-> <<>>]
            /\ exitCode = [p \in {"host"} |-> <<>>]

NextWrap ==
    \/ \E p \in Procs : SendTo(p, TRUE)
    \/ \E p \in Procs : SendTo(p, FALSE)
    \/ \E p \in Procs : Sleep(p)

SpecWrap == InitWrap /\ [][NextWrap]_vars

(***************************************************************************)
(* Properties.                                                             *)
(***************************************************************************)
IsSendOrSleep(e) == e.op \in {"sendto", "Sleep"}
IsSend(e) == e.op = "sendto"

\* The sendto and Sleep calls of process p, in the order made.
SendsAndSleeps(p) == SelectSeq(calls[p], IsSendOrSleep)
Sends(p) == SelectSeq(calls[p], IsSend)

\* C1: the sendto and Sleep calls of a process alternate, starting with a
\* sendto; the k-th sendto carries the payload value k-1, every Sleep is of
\* 5000 ms and follows a sendto that succeeded.  So N successful sends from
\* loop entry carry 0, 1, ..., N-1 in order, one 5-second sleep between two
\* consecutive sends.
C1_CounterSequence ==
    \A p \in Procs :
        LET T == SendsAndSleeps(p)
        IN  \A i \in 1..Len(T) :
                IF i % 2 = 1
                THEN /\ T[i].op = "sendto"
                     /\ BytesInt(T[i].data) = (i - 1) \div 2
                ELSE /\ T[i].op = "Sleep"
                     /\ T[i].ms = 5000
                     /\ T[i - 1].ok

\* C1 witness: three successful sends with the two sleeps between them.
C1_Witness ==
    \E p \in Procs :
        /\ Len(SendsAndSleeps(p)) >= 5
        /\ \A i \in 1..3 : Sends(p)[i].ok

ProvisionOrder == <<"WSAStartup", "socket", "SO_BROADCAST", "IP_MULTICAST_TTL", "bind">>
IsProvision(e) == e.op \in {"WSAStartup", "socket", "SO_BROADCAST", "IP_MULTICAST_TTL", "bind"}
IsLoopCall(e) == e.op \in {"sendto", "Sleep", "recvfrom"}

\* The provisioning calls of process p, and the calls of its loop.
Provisioning(p) == SelectSeq(calls[p], IsProvision)
LoopCalls(p) == SelectSeq(calls[p], IsLoopCall)
InLoop(p) == pc[p] \in {"sendto", "Sleep", "recvfrom"} \/ LoopCalls(p) # <<>>

\* C2: the provisioning calls made are an initial part of WSAStartup,
\* socket, SO_BROADCAST, IP_MULTICAST_TTL, bind; every call but the last one
\* made succeeded; after a failed call the process has exited with status 1
\* and made no call of either loop; and a process in a loop has made all
\* five calls with success and holds a bound, broadcast-enabled socket.
C2_ProvisionOrder ==
    \A p \in Procs :
        LET P == Provisioning(p)
        IN  /\ Len(P) <= 5
            /\ \A i \in 1..Len(P) : P[i].op = ProvisionOrder[i]
            /\ \A i \in 1..(Len(P) - 1) : P[i].ok
            /\ (\E i \in 1..Len(P) : ~P[i].ok) =>
                   /\ pc[p] = "exited"
                   /\ exitCode[p] = <<1>>
                   /\ ~InLoop(p)
            /\ InLoop(p) =>
                   /\ Len(P) = 5
                   /\ \A i \in 1..5 : P[i].ok
                   /\ sock[p].bcast
                   /\ sock[p].port # NoPort

\* C2 witness: bind failed after four successful steps and the process exited.
C2_Witness ==
    \E p \in Procs :
        /\ Len(Provisioning(p)) = 5
        /\ ~Provisioning(p)[5].ok
        /\ exitCode[p] = <<1>>

AllOnes == <<255, 255, 255, 255>>

\* C3 as stated: every sendto of a process goes to the -a override when one
\* was given and to 255.255.255.255 otherwise, on the configured port.
C3_Original ==
    \A p \in Procs : \A i \in 1..Len(Sends(p)) :
        LET e == Sends(p)[i]
        IN  /\ IF sOvrAddr[p] # <<>> THEN inet_ntoa(e.addr) = sOvrAddr[p]
                                     ELSE e.addr = AllOnes
            /\ e.port = nPort[p]

\* C3 amended: all the datagrams of one run go to one destination, fixed
\* before the first send.  Its address is the -a override when a non-empty
\* one was given and it parses as an IPv4 address, and 255.255.255.255 when
\* none was given or it does not parse; its port is the configured port
\* reduced modulo 65536 (the configured port itself when it lies in
\* 0..65535, 40061 by default).  A broadcaster started with -a10.0.0.255
\* alone sends only to 10.0.0.255:40061.
C3_FixedDestination ==
    \A p \in Procs :
        LET S == Sends(p)
            converts == sOvrAddr[p] # <<>> /\ inet_addr(sOvrAddr[p]) # INADDR_NONE
        IN
        \A i \in 1..Len(S) :
        LET e == S[i]
        IN  /\ e.addr = S[1].addr /\ e.port = S[1].port
            /\ e.addr = dst[p].addr /\ e.port = dst[p].port
            /\ IF converts
               THEN inet_ntoa(e.addr) = sOvrAddr[p]
               ELSE e.addr = AllOnes
            /\ e.port = nPort[p] % 65536
            /\ (nPort[p] \in 0..65535) => e.port = nPort[p]
            /\ (argv[p] = << <<"-", "a", "1", "0", ".", "0", ".", "0", ".", "2", "5", "5">> >>)
                   => (e.addr = <<10, 0, 0, 255>> /\ e.port = 40061)

\* C3 witness: a broadcaster started with -a10.0.0.255 alone has sent two
\* datagrams.
C3_Witness ==
    \E p \in Procs :
        /\ argv[p] = << <<"-", "a", "1", "0", ".", "0", ".", "0", ".", "2", "5", "5">> >>
        /\ Len(Sends(p)) >= 2
        /\ Sends(p)[2].ok

\* The argument list holds a receiver-mode flag.
HasFlagR(args) == \E i \in 1..Len(args) : Len(args[i]) >= 2 /\ args[i][2] = "r"

IsRecv(e) == e.op = "recvfrom"
Recvs(p) == SelectSeq(calls[p], IsRecv)

\* parseCommandLine has returned to main: the process has a configuration.
Parsed(p) == pc[p] \notin {"main", "aborted"}

\* C4: once the command line is parsed the mode is fixed by the presence of
\* the -r flag; a process started with -r never calls sendto or Sleep and,
\* once provisioned, is in the receiver loop or has exited; a process
\* started without -r never calls recvfrom and, once provisioned, is in the
\* broadcaster loop or has exited.
C4_OneLoop ==
    \A p \in Procs :
        /\ Parsed(p) => bRecv[p] = (IF HasFlagR(argv[p]) THEN 1 ELSE 0)
        /\ HasFlagR(argv[p]) =>
               /\ SendsAndSleeps(p) = <<>>
               /\ pc[p] \notin {"sendto", "Sleep"}
               /\ Len(Provisioning(p)) = 5 /\ Provisioning(p)[5].ok
                      => pc[p] \in {"recvfrom", "exited"}
        /\ ~HasFlagR(argv[p]) =>
               /\ Recvs(p) = <<>>
               /\ pc[p] # "recvfrom"
               /\ Len(Provisioning(p)) = 5 /\ Provisioning(p)[5].ok
                      => pc[p] \in {"sendto", "Sleep", "exited"}

\* C4 witness: a process started with -r has received a datagram.
C4_Witness ==
    \E p \in Procs : HasFlagR(argv[p]) /\ Len(Recvs(p)) >= 1 /\ pc[p] = "recvfrom"

IsReport(e) == e.op = "printf" /\ e.fmt = "Received"
IsRecvOk(e) == e.op = "recvfrom" /\ e.result >= 0

\* The reports of process p, and the datagrams recvfrom returned to it.
Reports(p) == SelectSeq(calls[p], IsReport)
Received(p) == SelectSeq(calls[p], IsRecvOk)

\* C5: the reports of a receiver are, one for one and in order, the
\* datagrams recvfrom returned; the report of a datagram is the call made
\* right after its recvfrom; the sender reported is the text of the
\* datagram's source address, and for a datagram of exactly 4 bytes the
\* value reported is the integer those bytes encode.
C5_ReportsAreDatagrams ==
    \A p \in Procs :
        /\ Len(Reports(p)) = Len(Received(p))
        /\ \A j \in 1..Len(calls[p]) :
               /\ IsRecvOk(calls[p][j]) =>
                      j < Len(calls[p]) /\ IsReport(calls[p][j + 1])
               /\ IsReport(calls[p][j]) => j > 1 /\ IsRecvOk(calls[p][j - 1])
        /\ \A i \in 1..Len(Reports(p)) :
               LET r == Reports(p)[i]
                   d == Received(p)[i]
               IN  /\ r.from = inet_ntoa(d.src)
                   /\ d.src = <<10, 0, 0, 7>> => r.from = <<"1", "0", ".", "0", ".", "0", ".", "7">>
                   /\ Len(d.data) = 4 =>
                          /\ r.val = BytesInt(d.data)
                          /\ d.data = <<0, 0, 0, 0>> => r.val = 0
                          /\ d.data = <<1, 0, 0, 0>> => r.val = 1
                          /\ d.data = <<255, 255, 255, 255>> => r.val = 0 - 1

\* C5 witness: a receiver has reported the value 1 twice running, from two
\* different hosts.
C5_Witness ==
    \E p \in Procs :
        /\ Len(Reports(p)) >= 2
        /\ Reports(p)[1].val = 1 /\ Reports(p)[2].val = 1
        /\ Reports(p)[1].from # Reports(p)[2].from

\* The values process p has handed to sendto, and the values it has reported.
SentValues(p) == [i \in 1..Len(Sends(p)) |-> BytesInt(Sends(p)[i].data)]
ReportedValues(p) == [i \in 1..Len(Reports(p)) |-> Reports(p)[i].val]

\* What C6 says of every state of the scenario: the first report is value 0
\* from the broadcaster's host, the second is value 1, and the values
\* reported are an initial part of the values sent.
C6_Prefix ==
    LET R == Reports("rx")
    IN  /\ Len(R) >= 1 => R[1].val = 0 /\ R[1].from = inet_ntoa(HostAddr("tx"))
        /\ Len(R) >= 1 => R[1].from = <<"1", "0", ".", "0", ".", "0", ".", "3">>
        /\ Len(R) >= 2 => R[2].val = 1
        /\ Len(R) <= Len(Sends("tx"))
        /\ ReportedValues("rx") = SubSeq(SentValues("tx"), 1, Len(R))

\* C6: in the scenario of a receiver started with -r -p41000 and a
\* broadcaster started afterwards with -p41000 -t1, the reports are always
\* an initial part of the values sent, starting 0 (from the broadcaster's
\* host address) and 1, and every value sent is eventually reported.
C6_EndToEnd ==
    /\ []C6_Prefix
    /\ \A k \in 1..MaxSends :
           (Len(Sends("tx")) >= k) ~> (Len(Reports("rx")) >= k /\ ReportedValues("rx")[k] = k - 1)

\* C6 witness: the receiver has reported two values while the broadcaster
\* has sent a third.
C6_Witness ==
    /\ Len(Reports("rx")) = 2
    /\ Len(Sends("tx")) = 3

IsSendFailure(e) == e.op = "sendto" /\ ~e.ok
IsRecvFailure(e) == e.op = "recvfrom" /\ e.result < 0

\* C7: a failed sendto or recvfrom is followed by the report of the error
\* and by nothing else, and the process has exited with status 1; after a
\* failed sendto the counter still holds the value whose send failed.
C7_TransportFailureFatal ==
    \A p \in Procs : \A j \in 1..Len(calls[p]) :
        LET e == calls[p][j]
        IN  /\ IsSendFailure(e) \/ IsRecvFailure(e) =>
                   /\ pc[p] = "exited"
                   /\ exitCode[p] = <<1>>
                   /\ Len(calls[p]) = j + 1
            /\ IsSendFailure(e) =>
                   /\ calls[p][j + 1] = [op |-> "perror", fmt |-> "Sending broadcast"]
                   /\ nValue[p] = BytesInt(e.data)
                   /\ Len(Sends(p)) = nValue[p] + 1
            /\ IsRecvFailure(e) =>
                   calls[p][j + 1] = [op |-> "printf", fmt |-> "recvfrom failed with error"]

\* C7 witness: the third send of a broadcaster failed.
C7_Witness ==
    \E p \in Procs :
        /\ Len(Sends(p)) = 3
        /\ ~Sends(p)[3].ok
        /\ nValue[p] = 2
        /\ pc[p] = "exited"

\* C8: no process ever exits with status 0: a process that has exited has
\* status 1, and a process that has entered a loop is in that loop or has
\* exited with status 1.
C8_NeverExitZero ==
    \A p \in Procs :
        /\ exitCode[p] \in {<<>>, <<1>>}
        /\ pc[p] = "exited" <=> exitCode[p] = <<1>>
        /\ InLoop(p) => pc[p] \in {"sendto", "Sleep", "recvfrom", "exited"}

\* C8 witness: a receiver has left its loop, by exit(1), after a report.
C8_Witness ==
    \E p \in Procs :
        /\ Len(Reports(p)) >= 1
        /\ pc[p] = "exited"
        /\ exitCode[p] = <<1>>

\* The argument list holds a flag c, and the place of its last occurrence.
HasFlag(args, c) == \E i \in 1..Len(args) : Len(args[i]) >= 2 /\ args[i][2] = c
LastFlag(args, c) ==
    CHOOSE i \in 1..Len(args) :
        /\ Len(args[i]) >= 2 /\ args[i][2] = c
        /\ \A j \in (i + 1)..Len(args) : ~(Len(args[j]) >= 2 /\ args[j][2] = c)

\* The number a flag's text stands for, for the texts of the argument pool.
KnownNumber(arg) ==
    CASE arg = <<"-", "p", "4", "1", "0", "0", "0">> -> 41000
      [] arg = <<"-", "p", "7", "0", "0", "0", "0">> -> 70000
      [] arg = <<"-", "p", "a", "b", "c">> -> 0
      [] arg = <<"-", "t", "6", "4">> -> 64
      [] OTHER -> strtol(Rest(arg))

\* The resolved configuration of process p is what C9 says of its argument
\* list: the defaults where a flag is absent, the last occurrence where it
\* is present.
ResolvedAsClaimed(p) ==
    LET a == argv[p]
    IN  /\ nPort[p] = IF HasFlag(a, "p") THEN KnownNumber(a[LastFlag(a, "p")]) ELSE 40061
        /\ nTtl[p] = IF HasFlag(a, "t") THEN KnownNumber(a[LastFlag(a, "t")]) ELSE 1
        /\ bRecv[p] = IF HasFlag(a, "r") THEN 1 ELSE 0
        /\ sOvrAddr[p] = IF HasFlag(a, "a") THEN Rest(a[LastFlag(a, "a")]) ELSE <<>>

IsTtlSet(e) == e.op = "IP_MULTICAST_TTL"
IsBind(e) == e.op = "bind"

\* C9 as stated: the configuration is resolved as claimed, the TTL set on
\* the socket is the resolved hop limit and the port asked of bind is the
\* resolved port.
C9_Original ==
    \A p \in Procs :
        Parsed(p) =>
            /\ ResolvedAsClaimed(p)
            /\ \A j \in 1..Len(calls[p]) :
                   /\ IsTtlSet(calls[p][j]) => calls[p][j].ttl = nTtl[p]
                   /\ IsBind(calls[p][j]) => calls[p][j].port = nPort[p]

\* C9 amended: the configuration is resolved as claimed (defaults 40061, 1,
\* broadcaster, no override; the last occurrence of -p, -t, -a wins); the
\* TTL passed to setsockopt, and set on the socket when the call succeeds,
\* is the resolved hop limit; the port passed to bind is the resolved port
\* reduced modulo 65536, which is the resolved port itself when it lies in
\* 0..65535; the socket is bound to the port passed, except that for port 0
\* the system chooses the port.
C9_ResolvedConfiguration ==
    \A p \in Procs :
        Parsed(p) =>
            /\ ResolvedAsClaimed(p)
            /\ \A j \in 1..Len(calls[p]) :
                   LET e == calls[p][j]
                   IN  /\ IsTtlSet(e) => e.ttl = nTtl[p] /\ (e.ok => sock[p].ttl = nTtl[p])
                       /\ IsBind(e) =>
                              /\ e.port = nPort[p] % 65536
                              /\ nPort[p] \in 0..65535 => e.port = nPort[p]
                              /\ e.ok /\ e.port # 0 => sock[p].port = e.port
                              /\ e.ok /\ e.port = 0 => sock[p].port \in EphemeralPorts
            /\ sock[p].port # NoPort => \E j \in 1..Len(calls[p]) : IsBind(calls[p][j]) /\ calls[p][j].ok

\* C9 witness: started with -p70000 -p41000, the process is bound to 41000.
C9_Witness ==
    \E p \in Procs :
        /\ argv[p] = << <<"-", "p", "7", "0", "0", "0", "0">>,
                        <<"-", "p", "4", "1", "0", "0", "0">> >>
        /\ sock[p].port = 41000
        /\ sock[p].ttl = 1

\* C10: the values parseCommandLine leaves do not depend on what bRecv held
\* before the call, and a further call with the same argument list on the
\* values the first call left leaves them as they are.
C10_ParseIdempotent ==
    \A p \in Procs :
        pc[p] # "main" =>
            \A b \in {0, 1} :
                LET first == parseCommandLine(argv[p], MainLocals(b))
                IN  /\ nPort[p] = first.nPort
                    /\ nTtl[p] = first.nTtl
                    /\ bRecv[p] = first.bRecv
                    /\ sOvrAddr[p] = first.sAddr

\* C10 witness: an argument list with a port and an override has been
\* parsed a second time.
C10_Witness ==
    \E p \in Procs :
        /\ pc[p] = "reparsed"
        /\ nPort[p] = 41000
        /\ sOvrAddr[p] = <<"1", "0", ".", "0", ".", "0", ".", "2", "5", "5">>

\* The flags the switch has a case for, and an argument list without the
\* arguments that carry any other flag.
IsKnownFlag(arg) == FlagChar(arg) \in {"a", "p", "r", "t", "?"}
WithoutUnknown(args) == SelectSeq(args, IsKnownFlag)

\* An -a argument whose text does not fit the address buffer.
IsOverlong(arg) == FlagChar(arg) = "a" /\ Len(Rest(arg)) >= ADDR_SIZE
HasOverlong(args) == \E i \in 1..Len(args) : IsOverlong(args[i])

IsUnknownReport(e) == e.op = "printf" /\ e.fmt = "Unknown command line argument"

\* The values process p holds are those of the configuration cfg.
HoldsConfig(p, cfg) ==
    /\ nPort[p] = cfg.nPort
    /\ nTtl[p] = cfg.nTtl
    /\ bRecv[p] = cfg.bRecv
    /\ sOvrAddr[p] = cfg.sAddr

\* The values process p holds are those parseCommandLine leaves for args.
ConfigFrom(p, args) == HoldsConfig(p, parseCommandLine(args, MainLocals(0)))

\* The same, and the call ends the process for args exactly if it has
\* ended process p.
ResolvedFrom(p, args) ==
    LET cfg == parseCommandLine(args, MainLocals(0))
    IN  HoldsConfig(p, cfg) /\ (pc[p] = "aborted") = cfg.aborted

\* C11 as stated: the values after parsing are those of the argument list
\* without its unrecognized flags, and parsing never ends the process.
C11_Original ==
    \A p \in Procs :
        pc[p] # "main" =>
            /\ ResolvedFrom(p, WithoutUnknown(argv[p]))
            /\ pc[p] # "aborted"

\* C11 amended: an unrecognized flag has no effect on the configuration:
\* mode, port, hop limit and override after parsing are those of the
\* argument list without its unrecognized flags, and so is whether parsing
\* returns; parsing never calls exit, and it ends the process in one case
\* only, an -a value of 256 characters or more, which strcpy_s refuses;
\* otherwise the process goes on to WSAStartup.
C11_UnknownFlagIgnored ==
    \A p \in Procs :
        /\ pc[p] # "main" /\ WithoutUnknown(argv[p]) # argv[p]
               => ResolvedFrom(p, WithoutUnknown(argv[p]))
        /\ pc[p] = "aborted" => HasOverlong(argv[p])
        /\ pc[p] # "main" /\ ~HasOverlong(argv[p]) => Parsed(p)
        /\ pc[p] = "exited" => \E j \in 1..Len(calls[p]) : IsProvision(calls[p][j])

\* C11 witness: started with -x -p41000, the process has reported the
\* unrecognized flag and is in the broadcaster loop with port 41000.
C11_Witness ==
    \E p \in Procs :
        /\ argv[p] = << <<"-", "x">>, <<"-", "p", "4", "1", "0", "0", "0">> >>
        /\ Len(SelectSeq(calls[p], IsUnknownReport)) = 1
        /\ nPort[p] = 41000
        /\ pc[p] = "sendto"

\* The text is one inet_addr converts: one to four decimal parts, every
\* part but the last one octet, the last part no wider than the octets left.
ParsesAsIPv4(s) ==
    LET n == Cardinality(Dots(s)) + 1
    IN  /\ n <= 4
        /\ \A k \in 1..n : Part(s, k) # <<>>
        /\ \A k \in 1..(n - 1) : \A m \in 1..3 : Part(s, k)[m] = 0
        /\ \A m \in 1..(n - 1) : Part(s, n)[m] = 0

IsOctet(n) == n >= 0 /\ n < BYTE_RANGE
IsUShort(n) == n >= 0 /\ n < USHORT_RANGE
IsLong(n) == n >= LONG_MIN /\ n <= LONG_MAX

\* C12 as stated: the resolved configuration has a hop limit of 0 or more, a
\* port that is an unsigned 16-bit value and, when an override is present,
\* an override that parses as an IPv4 address.
C12_Original ==
    \A p \in Procs :
        Parsed(p) =>
            /\ nTtl[p] >= 0
            /\ IsUShort(nPort[p])
            /\ sOvrAddr[p] # <<>> => ParsesAsIPv4(sOvrAddr[p])

\* C12 amended: the resolved configuration is not validated: mode is 0 or
\* 1, hop limit and port are whatever strtol returned, a 32-bit long that
\* may be negative or above 65535, and the override is any text of at most
\* 255 characters, whether it parses or not.  What reaches the socket is
\* valid for the port and the address only: the port passed to bind and
\* the port of the destination are the resolved port modulo 65536, an
\* unsigned 16-bit value, and the destination address is four octets, the
\* all-ones address when the override does not parse; the hop limit is
\* passed to setsockopt as it is.
C12_ResolvedRanges ==
    \A p \in Procs :
        Parsed(p) =>
            /\ bRecv[p] \in {0, 1}
            /\ IsLong(nTtl[p]) /\ IsLong(nPort[p])
            /\ Len(sOvrAddr[p]) < ADDR_SIZE
            /\ \A j \in 1..Len(calls[p]) :
                   LET e == calls[p][j]
                       unparsed == ~ParsesAsIPv4(sOvrAddr[p])
                   IN  /\ IsTtlSet(e) => e.ttl = nTtl[p]
                       /\ IsBind(e) => IsUShort(e.port) /\ e.port = nPort[p] % USHORT_RANGE
                       /\ IsSend(e) =>
                              /\ IsUShort(e.port) /\ e.port = nPort[p] % USHORT_RANGE
                              /\ \A m \in 1..4 : IsOctet(e.addr[m])
                              /\ unparsed => e.addr = INADDR_BROADCAST

\* C12 witness: started with -p70000 -aabc, the process has bound port 4464
\* and sent to 255.255.255.255:4464.
C12_Witness ==
    \E p \in Procs :
        /\ nPort[p] = 70000
        /\ sOvrAddr[p] = <<"a", "b", "c">>
        /\ \E j \in 1..Len(calls[p]) :
               /\ IsSend(calls[p][j])
               /\ calls[p][j].port = 4464
               /\ calls[p][j].addr = <<255, 255, 255, 255>>

\* The help requests of an argument list, the list up to its first help
\* request, and the list without its help requests.
IsHelp(arg) == FlagChar(arg) = "?"
IsNoHelp(arg) == ~IsHelp(arg)
HasHelp(args) == \E i \in 1..Len(args) : IsHelp(args[i])
FirstHelp(args) ==
    CHOOSE i \in 1..Len(args) : IsHelp(args[i]) /\ \A j \in 1..(i - 1) : ~IsHelp(args[j])
UpToHelp(args) == IF HasHelp(args) THEN SubSeq(args, 1, FirstHelp(args)) ELSE args
WithoutHelp(args) == SelectSeq(args, IsNoHelp)

IsUsage(e) == e.op = "printf" /\ e.fmt = "usage"

\* C13 as stated: a help request prints the usage text, the arguments after
\* it are not applied (the configuration is that of the arguments up to
\* it), and the process goes on to WSAStartup.
C13_Original ==
    \A p \in Procs :
        Parsed(p) =>
            /\ ConfigFrom(p, UpToHelp(argv[p]))
            /\ HasHelp(argv[p]) => \E j \in 1..Len(calls[p]) : IsUsage(calls[p][j])

\* C13 amended: every help request prints the usage text once, before any
\* socket call, and changes nothing else: parsing goes on with the next
\* argument, so the configuration is that of the argument list without its
\* help requests, arguments after a help request included, and the run is
\* ended by parsing exactly if it would be without them; the process then
\* goes on to provisioning.
C13_HelpPrintsOnly ==
    \A p \in Procs :
        /\ pc[p] # "main" /\ HasHelp(argv[p]) => ResolvedFrom(p, WithoutHelp(argv[p]))
        /\ Parsed(p) =>
               /\ Len(SelectSeq(calls[p], IsUsage)) =
                      Len(SelectSeq(argv[p], IsHelp))
               /\ \A j \in 1..Len(calls[p]) :
                      IsUsage(calls[p][j]) => \A k \in 1..j : calls[p][k].op = "printf"
        /\ pc[p] = "exited" /\ HasHelp(argv[p]) =>
               \E j \in 1..Len(calls[p]) : IsProvision(calls[p][j])

\* C13 witness: started with -? -p41000, the process has printed the usage
\* text and is in the broadcaster loop, bound to port 41000.
C13_Witness ==
    \E p \in Procs :
        /\ argv[p] = << <<"-", "?">>, <<"-", "p", "4", "1", "0", "0", "0">> >>
        /\ Len(SelectSeq(calls[p], IsUsage)) = 1
        /\ sock[p].port = 41000
        /\ pc[p] = "sendto"

\* The value of the last -p flag and of the last -t flag of a list.
PortText(args) == Rest(args[LastFlag(args, "p")])
TtlText(args) == Rest(args[LastFlag(args, "t")])

\* The text is not a number: it does not begin with a digit, or a sign and
\* a digit.  The text is a run of digits only.
IsSigned(s) == Len(s) >= 2 /\ s[1] \in {"+", "-"} /\ s[2] \in Digits
NonNumeric(s) == ~(s # <<>> /\ s[1] \in Digits) /\ ~IsSigned(s)
AllDigits(s) == s # <<>> /\ \A i \in 1..Len(s) : s[i] \in Digits

\* A run of more digits than any 32-bit long has.
BeyondLong(s) == AllDigits(s) /\ Len(s) > 10

\* The ports process p passed to bind and to sendto.
PortsUsed(p) ==
    {calls[p][j].port : j \in {k \in 1..Len(calls[p]) : IsBind(calls[p][k]) \/ IsSend(calls[p][k])}}

\* C14 as stated: a -p value that is non-numeric or not a port resolves to
\* port 0 and 0 is the port passed to bind and sent to; a -t value that is
\* non-numeric or beyond the range of long resolves to hop limit 0.
C14_Original ==
    \A p \in Procs :
        Parsed(p) =>
            /\ HasFlag(argv[p], "p") =>
                   LET v == PortText(argv[p])
                   IN  NonNumeric(v) \/ ~IsUShort(strtol(v)) =>
                           nPort[p] = 0 /\ PortsUsed(p) \subseteq {0}
            /\ HasFlag(argv[p], "t") =>
                   LET v == TtlText(argv[p])
                   IN  NonNumeric(v) \/ BeyondLong(v) => nTtl[p] = 0

\* C14 amended: a -p or -t value is converted by strtol and never
\* rejected.  A value that does not begin with a number resolves to 0; a
\* number within the range of a 32-bit long resolves to itself, a valid
\* port or hop limit or not (70000 to 70000); a number beyond that range
\* resolves to the nearest end of it (99999999999 to 2147483647).  Nothing
\* is printed for such a value and the process goes on to provisioning.
\* The hop limit is passed to setsockopt as resolved; the port passed to
\* bind and sent to is the resolved port modulo 65536: 4464 for 70000, and
\* 0 for port 0, where the system chooses the port the socket is bound to.
C14_NumericFlags ==
    \A p \in Procs :
        Parsed(p) =>
            /\ HasFlag(argv[p], "p") =>
                   LET v == PortText(argv[p])
                   IN  /\ NonNumeric(v) => nPort[p] = 0
                       /\ v = <<"7", "0", "0", "0", "0">> =>
                              nPort[p] = 70000 /\ PortsUsed(p) \subseteq {4464}
                       /\ BeyondLong(v) =>
                              nPort[p] = LONG_MAX /\ PortsUsed(p) \subseteq {65535}
                       /\ nPort[p] = 0 =>
                              /\ PortsUsed(p) \subseteq {0}
                              /\ sock[p].port \in EphemeralPorts \cup {NoPort}
            /\ HasFlag(argv[p], "t") =>
                   LET v == TtlText(argv[p])
                   IN  /\ NonNumeric(v) => nTtl[p] = 0
                       /\ v = <<"6", "4">> => nTtl[p] = 64
                       /\ BeyondLong(v) => nTtl[p] = LONG_MAX
                       /\ \A j \in 1..Len(calls[p]) :
                              IsTtlSet(calls[p][j]) => calls[p][j].ttl = nTtl[p]
            /\ (\A i \in 1..Len(argv[p]) : FlagChar(argv[p][i]) \in {"p", "t"})
                   /\ calls[p] # <<>> => IsProvision(calls[p][1])

\* C14 witness: started with -pabc -t99999999999, the process holds port 0
\* and hop limit 2147483647, has passed that hop limit to setsockopt and
\* port 0 to bind, and is bound to a port the system chose.
C14_Witness ==
    \E p \in Procs :
        /\ argv[p] = << <<"-", "p", "a", "b", "c">>,
                        <<"-", "t", "9", "9", "9", "9", "9", "9", "9", "9", "9", "9", "9">> >>
        /\ nPort[p] = 0
        /\ nTtl[p] = LONG_MAX
        /\ \E j \in 1..Len(calls[p]) : IsTtlSet(calls[p][j]) /\ calls[p][j].ttl = LONG_MAX
        /\ \E j \in 1..Len(calls[p]) : IsBind(calls[p][j]) /\ calls[p][j].port = 0
        /\ sock[p].port \in EphemeralPorts

\* A recvfrom that took a datagram longer than the buffer of sizeof(nValue).
IsLongRecv(e) == e.op = "recvfrom" /\ Len(e.data) > INT_SIZE
IsRecvError(e) == e.op = "printf" /\ e.fmt = "recvfrom failed with error"

\* C15 as stated: the recvfrom of a datagram longer than 4 bytes succeeds,
\* is followed by the report of the value of its first 4 bytes, and the
\* receiver goes on.
C15_Original ==
    \A p \in Procs :
        \A j \in 1..Len(calls[p]) :
            IsLongRecv(calls[p][j]) =>
                /\ calls[p][j].result >= 0
                /\ j < Len(calls[p])
                /\ IsReport(calls[p][j + 1])
                /\ calls[p][j + 1].val = BytesInt(SubSeq(calls[p][j].data, 1, INT_SIZE))

\* C15 amended: in receiver mode a datagram longer than the 4-byte buffer
\* is an error: recvfrom returns SOCKET_ERROR (message too long), the
\* receiver prints the failure, reports no value for the datagram and exits
\* with status 1; it is the last datagram the receiver takes.
C15_LongDatagramFatal ==
    \A p \in Procs :
        \A j \in 1..Len(calls[p]) :
            IsLongRecv(calls[p][j]) =>
                /\ calls[p][j].result = SOCKET_ERROR
                /\ Len(calls[p]) = j + 1
                /\ IsRecvError(calls[p][j + 1])
                /\ pc[p] = "exited" /\ exitCode[p] = <<1>>
                /\ Len(Reports(p)) = Len(Recvs(p)) - 1

\* C15 witness: a receiver that has reported one datagram has exited on a
\* datagram of five bytes.
C15_Witness ==
    \E p \in Procs :
        /\ Len(Reports(p)) = 1
        /\ Len(Recvs(p)) = 2
        /\ IsLongRecv(Recvs(p)[2])
        /\ pc[p] = "exited"

IsSending(e) == e.op = "printf" /\ e.fmt = "Sending"

\* C16 as stated: the counter is an unsigned 32-bit integer: every value
\* logged lies in 0 .. 2^32 - 1 and is the unsigned number the four bytes
\* of the datagram that follows stand for (a logged value below 0 is none),
\* the bytes sent after ff ff ff ff are 00 00 00 00, and incrementing never
\* ends the loop.
C16_Original ==
    \A p \in Procs :
        /\ pc[p] \in {"sendto", "Sleep"} \/ (pc[p] = "exited" /\ ~Sends(p)[Len(Sends(p))].ok)
        /\ \A j \in 1..Len(calls[p]) :
               IsSending(calls[p][j]) =>
                   /\ calls[p][j].val >= 0
                   /\ calls[p][j + 1].data = IntBytes(calls[p][j].val)
        /\ \A k \in 1..(Len(Sends(p)) - 1) :
               Sends(p)[k].data = <<255, 255, 255, 255>>
                   => Sends(p)[k + 1].data = <<0, 0, 0, 0>>

\* The value reported before the k-th report of process p: the 0 nValue is
\* initialised with when there is none.
PreviousValue(p, k) == IF k = 1 THEN 0 ELSE Reports(p)[k - 1].val

\* C18: the k-th value a receiver reports is made of the bytes of the k-th
\* datagram recvfrom returned, as far as they go, and for the rest of the
\* bytes of the value reported before it (0 before the first): an empty
\* datagram repeats the previous value, a datagram of 4 bytes replaces it;
\* and after a recvfrom that succeeded, whatever the length, the receiver
\* waits in recvfrom again.
C18_BufferKept ==
    \A p \in Procs :
        /\ Len(Reports(p)) = Len(Received(p))
        /\ \A k \in 1..Len(Reports(p)) :
               LET data == Received(p)[k].data
                   prev == PreviousValue(p, k)
                   val  == Reports(p)[k].val
               IN  /\ Len(data) <= INT_SIZE
                   /\ Len(data) = 0 => val = prev
                   /\ \A i \in 1..INT_SIZE :
                          IntBytes(val)[i] = IF i <= Len(data) THEN data[i]
                                             ELSE IntBytes(prev)[i]
        /\ Recvs(p) # <<>> /\ Recvs(p)[Len(Recvs(p))].result >= 0 => pc[p] = "recvfrom"

\* C18 witness: a receiver that has reported -1 (ff ff ff ff) has then
\* taken a datagram of the one byte 01, reported -255 (01 ff ff ff) and
\* waits for the next datagram.
C18_Witness ==
    \E p \in Procs :
        /\ Len(Reports(p)) = 2
        /\ Reports(p)[1].val = 0 - 1
        /\ Received(p)[2].data = <<1>>
        /\ Reports(p)[2].val = 0 - 255
        /\ pc[p] = "recvfrom"

\* The value of the last -a flag of a list.
OverrideText(args) == Rest(args[LastFlag(args, "a")])

IsBroadcastTo(e) == e.op = "printf" /\ e.fmt = "Broadcast to"

\* Every send of process p, and the destination it announced, is the
\* all-ones address.
SendsToAllOnes(p) ==
    \A j \in 1..Len(calls[p]) :
        /\ IsSend(calls[p][j]) => calls[p][j].addr = AllOnes
        /\ IsBroadcastTo(calls[p][j]) => calls[p][j].addr = inet_ntoa(AllOnes)

\* C19 as stated: with a last -a value that is non-empty and does not parse
\* the process is not ended by parsing and sends to 255.255.255.255 only;
\* with an empty last -a value it has no override and sends there too.
C19_Original ==
    \A p \in Procs :
        pc[p] # "main" /\ HasFlag(argv[p], "a") =>
            LET v == OverrideText(argv[p])
            IN  /\ v # <<>> /\ ~ParsesAsIPv4(v) => Parsed(p) /\ SendsToAllOnes(p)
                /\ v = <<>> => Parsed(p) /\ sOvrAddr[p] = <<>> /\ SendsToAllOnes(p)

\* C19 amended: an -a value of at most 255 characters is never rejected.
\* When the override the process holds is non-empty and does not parse as
\* an IPv4 address, the process goes through provisioning and its loop as
\* with any other, exits only after a socket call, and announces and sends
\* to 255.255.255.255 only, as it does with no override; a last -a flag with
\* an empty value leaves no override.  Only an -a value of 256 characters
\* or more is rejected: the process ends while parsing.
C19_UnparsedOverride ==
    \A p \in Procs :
        /\ pc[p] # "main" /\ ~HasOverlong(argv[p]) => Parsed(p)
        /\ pc[p] # "main" /\ HasOverlong(argv[p]) =>
               /\ pc[p] = "aborted"
               /\ \A j \in 1..Len(calls[p]) : calls[p][j].op = "printf"
        /\ Parsed(p) /\ HasFlag(argv[p], "a") => sOvrAddr[p] = OverrideText(argv[p])
        /\ Parsed(p) /\ (sOvrAddr[p] = <<>> \/ ~ParsesAsIPv4(sOvrAddr[p])) =>
               /\ SendsToAllOnes(p)
               /\ pc[p] \in {"sendto", "Sleep"} => dst[p].addr = AllOnes
               /\ pc[p] = "exited" => \E j \in 1..Len(calls[p]) : IsProvision(calls[p][j])

\* C19 witness: started with -aabc, the process has sent a datagram to
\* 255.255.255.255:40061 and is about to send the next.
C19_Witness ==
    \E p \in Procs :
        /\ argv[p] = << <<"-", "a", "a", "b", "c">> >>
        /\ Len(Sends(p)) = 1
        /\ Sends(p)[1].addr = AllOnes /\ Sends(p)[1].port = 40061 /\ Sends(p)[1].ok
        /\ pc[p] = "sendto"

\* C17: in the scenario where every socket call succeeds and each process
\* keeps being scheduled, neither process ever exits; for every k up to the
\* bound the broadcaster eventually makes its k-th send; in the receiver
\* every datagram recvfrom has returned is reported, and once recvfrom has
\* returned k datagrams the receiver has reported k and waits in recvfrom
\* for the next.
C17_LoopsLive ==
    /\ [](\A p \in Procs : pc[p] \notin {"exited", "aborted"})
    /\ \A k \in 1..MaxSends : <>(Len(Sends("tx")) >= k)
    /\ [](Len(Reports("rx")) = Len(Received("rx")))
    /\ \A k \in 1..MaxSends :
           (Len(Received("rx")) >= k) ~> (Len(Reports("rx")) >= k /\ pc["rx"] = "recvfrom")
    /\ \A k \in 1..MaxSends : <>(Len(Reports("rx")) >= k)

\* C17 witness: the broadcaster has made every send the bound allows, the
\* receiver has reported each of them and waits for the next.
C17_Witness ==
    /\ Len(Sends("tx")) = MaxSends
    /\ Len(Reports("rx")) = MaxSends
    /\ pc["rx"] = "recvfrom"

====
